---------------------------- MODULE Spec2Model ----------------------------
(***************************************************************************)
(* Conway's Game of Life (conway-life-rs): the Board of src/src/board.rs   *)
(* and the auto-play driver of src/src/main.rs.                            *)
(*                                                                         *)
(* A Board is [dims |-> [x |-> width, y |-> height], cells |-> <<...>>];   *)
(* cells is the flattened Vec<bool>, cells[i+1] being the Rust cells[i].   *)
(* A Result<Board> is [status, err, board]: status "Ok", "Err" (the anyhow *)
(* error, err holding its message) or "Panic" (the thread aborts).         *)
(* Text is a sequence of one-character strings.                            *)
(*                                                                         *)
(* A usize is [h |-> 0 or 1, r |-> integer] and stands for                 *)
(*     (h * 2^(BITS-1) + r) mod 2^BITS,     BITS = usize::BITS,            *)
(* r being small against 2^(BITS-1): U(n) is the small value n, UsizeMax   *)
(* is [h |-> 0, r |-> -1], UsizeHalf is [h |-> 1, r |-> 0].  Sums and      *)
(* products are computed on this form as the code computes them: an        *)
(* overflow panics in a build with overflow checks (the dev profile) and   *)
(* wraps in a build without (the release profile); overflow_checks is the  *)
(* build the program was compiled as.                                      *)
(***************************************************************************)
EXTENDS Integers, Sequences, FiniteSets

VARIABLES
    overflow_checks,    \* the build: TRUE panics on integer overflow, FALSE wraps
    board,              \* the board held by the caller, cell by cell
    call,               \* the operation applied (or about to be) and its inputs
    ret,                \* what the last completed operation returned
    text,               \* the &str given to try_from / the String Display wrote
    origin,             \* the board a run of next() started from
    parity,             \* number of next() applied since origin, modulo 2
    is_running,         \* main.rs:40
    interval_id,        \* main.rs:41, Option<i32>
    interval_seconds,   \* main.rs:42, in hundredths of a second
    timers,             \* the handles of the browser's scheduled interval timers
    handles             \* number of timer handles the browser has handed out

vars == <<overflow_checks, board, call, ret, text, origin, parity,
          is_running, interval_id, interval_seconds, timers, handles>>

boardVars == <<board, call, ret, text, origin, parity>>
uiVars == <<is_running, interval_id, interval_seconds, timers, handles>>

---------------------------------------------------------------------------
(* Bounds of the model.                                                    *)

\* next() and Display: every board of sides at most MaxSide and of at most
\* MaxArea cells (1x1 .. 3x3, 1x4, 2x4, 4x1, 4x2)
MaxSide == 4
MaxArea == 9
\* new(): dimensions 0..MaxNewDim and the wide ones, cells of length 0..MaxCells
MaxNewDim == 2
MaxCells == 5
\* try_from(): every text of at most MaxTextLen characters
MaxTextLen == 5
\* add(): self and other up to MaxSelfDim square, offsets 0..MaxOffset and
\* usize::MAX, cells filled by patterns 0..MaxPattern
MaxSelfDim == 5
MaxOffset == 1
MaxPattern == 2
\* sequences of operations: small inputs, any order, any number of calls
MaxChainDim == 2
MaxChainCells == 2
MaxChainText == 3
MaxChainOffset == 1
\* driver: interval 0..MaxInterval hundredths, at most MaxHandles timers created
MaxInterval == 7
MaxHandles == 4

---------------------------------------------------------------------------
(* usize                                                                   *)

U(n) == [h |-> 0, r |-> n]
UsizeMax == [h |-> 0, r |-> -1]
UsizeHalf == [h |-> 1, r |-> 0]

\* the value is Units(a) * 2^(BITS-1) + a.r, without the mod
Units(a) == IF a.h = 1 THEN 1 ELSE IF a.r < 0 THEN 2 ELSE 0
IsSmall(a) == a.h = 0 /\ a.r >= 0

\* a < b, a >= b
ULt(a, b) == Units(a) < Units(b) \/ (Units(a) = Units(b) /\ a.r < b.r)
UGe(a, b) == ~ULt(a, b)

\* a + b: does the sum reach 2^BITS, and the sum mod 2^BITS
AddOverflows(a, b) ==
    \/ Units(a) + Units(b) >= 3
    \/ Units(a) + Units(b) = 2 /\ a.r + b.r >= 0
WrappingAdd(a, b) == [h |-> (a.h + b.h) % 2, r |-> a.r + b.r]

\* a * b: does the product reach 2^BITS, and the product mod 2^BITS
MulOverflows(a, b) ==
    IF a = U(0) \/ b = U(0) THEN FALSE
    ELSE IF IsSmall(a) /\ IsSmall(b) THEN FALSE
    ELSE IF ~IsSmall(a) /\ ~IsSmall(b) THEN TRUE
    ELSE LET s == IF IsSmall(a) THEN a ELSE b
             g == IF IsSmall(a) THEN b ELSE a
             k == s.r * Units(g)
         IN  k >= 3 \/ (k = 2 /\ s.r * g.r >= 0)
WrappingMul(a, b) == [h |-> (a.h * b.r + b.h * a.r) % 2, r |-> a.r * b.r]

\* an arithmetic operator of the build: [ok |-> FALSE] is the overflow panic
Arith(overflows, wrapped) ==
    [ok |-> ~(overflow_checks /\ overflows), v |-> wrapped]
UAdd(a, b) == Arith(AddOverflows(a, b), WrappingAdd(a, b))
UMul(a, b) == Arith(MulOverflows(a, b), WrappingMul(a, b))

\* vec[idx] is inside the vector
InVec(vec, idx) == IsSmall(idx) /\ idx.r < Len(vec)

---------------------------------------------------------------------------
(* board.rs: constants, Coords, Offset, Direction                          *)

ALIVE_CHAR == "x"
DEAD_CHAR == "-"

Coords(x, y) == [x |-> x, y |-> y]

DirectionAll == <<"N", "NE", "E", "SE", "S", "SW", "W", "NW">>

DirectionOffset(dir) ==
    CASE dir = "SW" -> [x |-> -1, y |-> -1]
      [] dir = "S"  -> [x |-> 0,  y |-> -1]
      [] dir = "SE" -> [x |-> 1,  y |-> -1]
      [] dir = "W"  -> [x |-> -1, y |-> 0]
      [] dir = "E"  -> [x |-> 1,  y |-> 0]
      [] dir = "NW" -> [x |-> -1, y |-> 1]
      [] dir = "N"  -> [x |-> 0,  y |-> 1]
      [] dir = "NE" -> [x |-> 1,  y |-> 1]

---------------------------------------------------------------------------
(* Option and Result values                                                *)

None == [some |-> FALSE, v |-> <<>>]
Some(v) == [some |-> TRUE, v |-> v]

NoBoard == [dims |-> Coords(U(0), U(0)), cells |-> <<>>]

InvalidDimensions == "Board dimensions must be greater than 0"
SizeMismatch == "Cells array must match dimensions"
OutOfBounds == "Board must be added inside boundaries"
InvalidCharacter == "The board string must contain only whitespace, ALIVE_CHAR, or DEAD_CHAR"
RaggedRows == "Board rows must all have the same number of columns"

Ok(b) == [status |-> "Ok", err |-> "", board |-> b]
Err(msg) == [status |-> "Err", err |-> msg, board |-> NoBoard]
Panic == [status |-> "Panic", err |-> "", board |-> NoBoard]

\* the element of a one-element set.  Only({e : v \in {value}}) is e with v
\* bound to value, value being computed once: let v = value; e
Only(set) == CHOOSE element \in set : TRUE

---------------------------------------------------------------------------
(* impl Board                                                              *)

\* vec![false; n]
VecFalse(n) == [i \in 1..n |-> FALSE]

BoardNew(dims, cells) ==
    LET num_cells == UMul(dims.x, dims.y) IN
    IF ~num_cells.ok THEN Panic                      \* attempt to multiply with overflow
    ELSE IF ~ULt(U(0), num_cells.v) THEN Err(InvalidDimensions)
    ELSE IF cells.some
         THEN IF ~(U(Len(cells.v)) = num_cells.v) THEN Err(SizeMismatch)
              ELSE Ok([dims |-> dims, cells |-> cells.v])
         ELSE IF ~IsSmall(num_cells.v) THEN Panic    \* the vector cannot be allocated
              ELSE Ok([dims |-> dims, cells |-> VecFalse(num_cells.v.r)])

DimY(b) == b.dims.y
DimX(b) == b.dims.x

\* Translate 2d coordinates to the flattened vec
Index(b, coords) ==
    LET row == UMul(coords.y, b.dims.x) IN
    IF ~row.ok THEN row ELSE UAdd(row.v, coords.x)

\* self.cells[idx]: [ok |-> FALSE] is the panic of the index or of its arithmetic
Alive(b, coords) ==
    LET idx == Index(b, coords) IN
    IF ~idx.ok \/ ~InVec(b.cells, idx.v) THEN [ok |-> FALSE, v |-> FALSE]
    ELSE [ok |-> TRUE, v |-> b.cells[idx.v.r + 1]]

SetAlive(b, coords, alive) ==
    LET idx == Index(b, coords) IN
    IF ~idx.ok \/ ~InVec(b.cells, idx.v) THEN [ok |-> FALSE, v |-> b]
    ELSE [ok |-> TRUE, v |-> [b EXCEPT !.cells[idx.v.r + 1] = alive]]

\* add's bounds test, || evaluating its right side when the left is false:
\* "bail", "pass", or "panic" when a sum overflows in a checked build
AddRejects(self, other, insert_coords) ==
    LET far_y == UAdd(insert_coords.y, DimY(other))
        far_x == UAdd(insert_coords.x, DimX(other))
    IN  IF ~far_y.ok THEN "panic"
        ELSE IF UGe(far_y.v, DimY(self)) THEN "bail"
        ELSE IF ~far_x.ok THEN "panic"
        ELSE IF UGe(far_x.v, DimX(self)) THEN "bail"
        ELSE "pass"

\* the body of add's loops at the coordinates c of other
AddWrite(new_board, other, insert_coords, c) ==
    LET nx == UAdd(c.x, insert_coords.x)
        ny == UAdd(c.y, insert_coords.y)
        source == Alive(other, c)
    IN  IF ~nx.ok \/ ~ny.ok \/ ~source.ok THEN [ok |-> FALSE, v |-> new_board]
        ELSE SetAlive(new_board, Coords(nx.v, ny.v), source.v)

\* for x in from..to { .. } in the row y of other: the body at from when the
\* range is one long, else the range from..mid and then mid..to (a preset row
\* is 39 cells long, and halving keeps the evaluation shallow)
RECURSIVE AddRow(_, _, _, _, _, _)
AddRow(new_board, other, insert_coords, y, from, to) ==
    IF ~ULt(U(from), to) THEN [ok |-> TRUE, v |-> new_board]
    ELSE IF to = U(from + 1)
    THEN AddWrite(new_board, other, insert_coords, Coords(U(from), U(y)))
    ELSE LET mid == IF IsSmall(to) THEN (from + to.r) \div 2 ELSE from + 1 IN
         Only({IF ~first.ok THEN first
               ELSE AddRow(first.v, other, insert_coords, y, mid, to) :
               first \in {AddRow(new_board, other, insert_coords, y, from, U(mid))}})

\* for y in 0..board.dim_y() { .. }, from y on
RECURSIVE AddLoop(_, _, _, _)
AddLoop(new_board, other, insert_coords, y) ==
    IF ~ULt(U(y), DimY(other)) THEN Ok(new_board)
    ELSE Only({IF ~row.ok THEN Panic
               ELSE AddLoop(row.v, other, insert_coords, y + 1) :
               row \in {AddRow(new_board, other, insert_coords, y, 0, DimX(other))}})

BoardAdd(self, other, insert_coords) ==
    LET new_board == self
        test == AddRejects(self, other, insert_coords)
    IN  IF test = "panic" THEN Panic
        ELSE IF test = "bail" THEN Err(OutOfBounds)
        ELSE AddLoop(new_board, other, insert_coords, 0)

\* usize::checked_add_signed: None when the sum leaves the usize range
CheckedAddSigned(u, i) ==
    IF i < 0
    THEN IF IsSmall(u) /\ u.r + i < 0 THEN None ELSE Some([h |-> u.h, r |-> u.r + i])
    ELSE IF AddOverflows(u, U(i)) THEN None ELSE Some(WrappingAdd(u, U(i)))

\* neighbor_coords on a torus: the coordinates wrap instead of falling off
NeighborCoordsTorus(b, coords, dir) ==
    LET offset == DirectionOffset(dir) IN
    Some(Coords(U((coords.x.r + offset.x + b.dims.x.r) % b.dims.x.r),
                U((coords.y.r + offset.y + b.dims.y.r) % b.dims.y.r)))

\* the coordinates of the neighbor in the direction, or None off the board
NeighborCoords(b, coords, dir) ==
    LET offset == DirectionOffset(dir)
        x == CheckedAddSigned(coords.x, offset.x)
        y == CheckedAddSigned(coords.y, offset.y)
    IN  IF ~x.some THEN None
        ELSE IF ~y.some THEN None
        ELSE IF UGe(x.v, b.dims.x) \/ UGe(y.v, b.dims.y) THEN None
        ELSE Some(Coords(x.v, y.v))

NeighborAlive(b, coords, dir) ==
    LET neighbor_coords == NeighborCoords(b, coords, dir) IN
    IF neighbor_coords.some THEN Alive(b, neighbor_coords.v)
    ELSE [ok |-> TRUE, v |-> FALSE]

\* Direction::all().iter().map(neighbor_alive).filter(|a| *a).count();
\* [ok |-> FALSE] when a lookup panics
NumAliveNeighbors(b, coords) ==
    Only({[ok |-> \A i \in 1..Len(around) : around[i].ok,
           v |-> Len(SelectSeq(around, LAMBDA a : a.ok /\ a.v))] :
          around \in {[i \in 1..Len(DirectionAll) |->
                          NeighborAlive(b, coords, DirectionAll[i])]}})

\* next_cell_state with survival on exactly 3 neighbors
NextCellStateSurvive3(b, coords) ==
    LET alive == Alive(b, coords) IN
    Only({IF ~alive.ok \/ ~n.ok THEN [ok |-> FALSE, v |-> FALSE]
          ELSE [ok |-> TRUE, v |-> (n.v = 3)] :
          n \in {NumAliveNeighbors(b, coords)}})

NextCellState(b, coords) ==
    LET alive == Alive(b, coords) IN
    Only({IF ~alive.ok \/ ~n.ok THEN [ok |-> FALSE, v |-> FALSE]
          ELSE [ok |-> TRUE,
                v |-> CASE alive.v /\ n.v \in 0..1 -> FALSE     \* Underpopulation
                        [] alive.v /\ n.v \in 2..3 -> TRUE      \* Survival
                        [] alive.v /\ n.v >= 4 -> FALSE         \* Overpopulation
                        [] ~alive.v /\ n.v = 3 -> TRUE          \* Reproduction
                        [] ~alive.v -> FALSE] :                 \* Stay dead
          n \in {NumAliveNeighbors(b, coords)}})

\* for x in 0..self.dim_x() { .. }, from x on, in the row y
RECURSIVE NextRow(_, _, _, _)
NextRow(self, next_board, x, y) ==
    IF ~ULt(U(x), DimX(self)) THEN [ok |-> TRUE, v |-> next_board]
    ELSE LET coords == Coords(U(x), U(y)) IN
         Only({IF ~state.ok THEN [ok |-> FALSE, v |-> next_board]
               ELSE Only({IF ~written.ok THEN written
                          ELSE NextRow(self, written.v, x + 1, y) :
                          written \in {SetAlive(next_board, coords, state.v)}}) :
               state \in {NextCellState(self, coords)}})

\* for y in 0..self.dim_y() { .. }, from y on
RECURSIVE NextLoop(_, _, _)
NextLoop(self, next_board, y) ==
    IF ~ULt(U(y), DimY(self)) THEN Ok(next_board)
    ELSE Only({IF ~row.ok THEN Panic
               ELSE NextLoop(self, row.v, y + 1) :
               row \in {NextRow(self, next_board, 0, y)}})

\* next returns Self; the unwrap() of Board::new panics on an Err
BoardNext(self) ==
    Only({IF fresh.status # "Ok" THEN Panic
          ELSE NextLoop(self, fresh.board, 0) :
          fresh \in {BoardNew(self.dims, None)}})

---------------------------------------------------------------------------
(* impl TryFrom<&str> for Board, impl Display for Board                    *)

\* the code points with the Unicode White_Space property; the ones TLA+ has
\* no escape for are written U+XXXX
WhiteSpace ==
    {"\t", "\n", "U+000B", "\f", "\r", " ", "U+0085", "U+00A0", "U+1680",
     "U+2000", "U+2001", "U+2002", "U+2003", "U+2004", "U+2005", "U+2006",
     "U+2007", "U+2008", "U+2009", "U+200A", "U+2028", "U+2029", "U+202F",
     "U+205F", "U+3000"}

\* char::is_whitespace
IsWhitespace(c) == c \in WhiteSpace

RECURSIVE TrimStart(_)
TrimStart(s) ==
    IF s = <<>> THEN s
    ELSE IF IsWhitespace(Head(s)) THEN TrimStart(Tail(s)) ELSE s

RECURSIVE TrimEnd(_)
TrimEnd(s) ==
    IF s = <<>> THEN s
    ELSE IF IsWhitespace(s[Len(s)]) THEN TrimEnd(SubSeq(s, 1, Len(s) - 1)) ELSE s

\* str::trim
Trim(s) == TrimEnd(TrimStart(s))

\* the least element of a non-empty set of positions
First(positions) == CHOOSE i \in positions : \A j \in positions : i <= j

\* the maximal runs of non-whitespace of s that start at from or later, in order
RECURSIVE SplitFrom(_, _)
SplitFrom(s, from) ==
    LET starts == {i \in from..Len(s) : ~IsWhitespace(s[i])} IN
    IF starts = {} THEN <<>>
    ELSE LET start == First(starts)
             stops == {i \in start..Len(s) : IsWhitespace(s[i])}
             stop == IF stops = {} THEN Len(s) + 1 ELSE First(stops)
         IN  <<SubSeq(s, start, stop - 1)>> \o SplitFrom(s, stop)

\* str::split_whitespace
SplitWhitespace(s) == SplitFrom(s, 1)

\* the filter_map of try_from: 'x' -> true, '-' -> false, the rest dropped
FilterCells(s) ==
    LET glyphs == SelectSeq(s, LAMBDA c : c = ALIVE_CHAR \/ c = DEAD_CHAR) IN
    [i \in 1..Len(glyphs) |-> glyphs[i] = ALIVE_CHAR]

TryFrom(str) ==
    Only({IF ~(\A i \in 1..Len(s) :
                  IsWhitespace(s[i]) \/ s[i] = ALIVE_CHAR \/ s[i] = DEAD_CHAR)
          THEN Err(InvalidCharacter)
          ELSE Only({IF \E i \in 2..Len(row_lens) : row_lens[i] # row_lens[1]
                     THEN Err(RaggedRows)
                     ELSE IF Len(row_lens) = 0
                     THEN Panic          \* row_lens[0]: index out of bounds
                     ELSE BoardNew(Coords(U(row_lens[1]), U(Len(row_lens))),
                                   Some(FilterCells(s))) :
                     row_lens \in {[i \in 1..Len(rows) |-> Len(rows[i])] :
                                      rows \in {SplitWhitespace(s)}}}) :
          s \in {Trim(str)}})

\* for x in 0..self.dim_x() { write!(f, "{ch}") }, from x on, in the row y
RECURSIVE FmtRow(_, _, _, _)
FmtRow(b, out, x, y) ==
    IF ~ULt(U(x), DimX(b)) THEN [ok |-> TRUE, v |-> out]
    ELSE Only({IF ~alive.ok THEN [ok |-> FALSE, v |-> out]
               ELSE FmtRow(b, Append(out, IF alive.v THEN ALIVE_CHAR ELSE DEAD_CHAR),
                           x + 1, y) :
               alive \in {Alive(b, Coords(U(x), U(y)))}})

\* Display writing the rows bottom-up
RECURSIVE FmtLoopFlipped(_, _, _)
FmtLoopFlipped(b, out, y) ==
    IF y < 0 THEN [ok |-> TRUE, v |-> out]
    ELSE Only({IF ~row.ok THEN row
               ELSE FmtLoopFlipped(b, Append(row.v, "\n"), y - 1) :
               row \in {FmtRow(b, out, 0, y)}})

BoardFmtFlipped(b) == FmtLoopFlipped(b, <<>>, b.dims.y.r - 1)

\* for y in 0..self.dim_y() { .. writeln!(f) }, from y on
RECURSIVE FmtLoop(_, _, _)
FmtLoop(b, out, y) ==
    IF ~ULt(U(y), DimY(b)) THEN [ok |-> TRUE, v |-> out]
    ELSE Only({IF ~row.ok THEN row
               ELSE FmtLoop(b, Append(row.v, "\n"), y + 1) :
               row \in {FmtRow(b, out, 0, y)}})

\* Display::fmt: the text written; [ok |-> FALSE] when a lookup panics
BoardFmt(b) == FmtLoop(b, <<>>, 0)

\* the indentation of the preset literals
Indent == <<" ", " ", " ", " ", " ", " ", " ", " ">>

BlinkerText ==
    <<"\n">> \o Indent \o <<"-", "-", "-", "-", "-", "\n">>
             \o Indent \o <<"-", "-", "x", "-", "-", "\n">>
             \o Indent \o <<"-", "-", "x", "-", "-", "\n">>
             \o Indent \o <<"-", "-", "x", "-", "-", "\n">>
             \o Indent \o <<"-", "-", "-", "-", "-", "\n">>
             \o Indent

\* try_into().unwrap(): a panic unless try_from returned Ok
Unwrap(r) == IF r.status = "Ok" THEN r ELSE Panic

\* Board::blinker
Blinker == Unwrap(TryFrom(BlinkerText))

\* one line of the gosper literal: 39 glyphs, 'x' at the columns given
GosperRow(alive_columns) ==
    Indent \o [i \in 1..39 |-> IF (i - 1) \in alive_columns THEN ALIVE_CHAR ELSE DEAD_CHAR]
           \o <<"\n">>

GosperText ==
    <<"\n">>
    \o GosperRow({})
    \o GosperRow({26})
    \o GosperRow({24, 26})
    \o GosperRow({14, 15, 22, 23, 36, 37})
    \o GosperRow({13, 17, 22, 23, 36, 37})
    \o GosperRow({2, 3, 12, 18, 22, 23})
    \o GosperRow({2, 3, 12, 16, 18, 19, 24, 26})
    \o GosperRow({12, 18, 26})
    \o GosperRow({13, 17})
    \o GosperRow({14, 15})
    \o GosperRow({})
    \o Indent

\* Board::gosper
Gosper == Unwrap(TryFrom(GosperText))

---------------------------------------------------------------------------
(* The callers.  call = the operation and its inputs, ret = its result.    *)

NoneId == [some |-> FALSE, v |-> 0]
SomeId(id) == [some |-> TRUE, v |-> id]

CallRec(mode, op, self, dims, cells, other, offset) ==
    [mode |-> mode, op |-> op, self |-> self, dims |-> dims, cells |-> cells,
     other |-> other, offset |-> offset]

NoCoords == Coords(U(0), U(0))

RetNone == [op |-> "none", status |-> "None", err |-> "", board |-> NoBoard]
Returned(op, r) == [op |-> op, status |-> r.status, err |-> r.err, board |-> r.board]

\* the inputs the specifications draw from
Usizes(n) == {U(k) : k \in 0..n}
WideUsizes == {UsizeHalf, WrappingAdd(UsizeHalf, U(1)), UsizeMax}
BoolSeqs(n) == UNION {[1..k -> BOOLEAN] : k \in 0..n}
CellOptions(n) == {None} \cup {Some(c) : c \in BoolSeqs(n)}
AllBoards(side, area) ==
    UNION {{[dims |-> Coords(U(d[1]), U(d[2])), cells |-> c] :
               c \in [1..(d[1] * d[2]) -> BOOLEAN]} :
           d \in {e \in (1..side) \X (1..side) : e[1] * e[2] <= area}}
Alphabet == {ALIVE_CHAR, DEAD_CHAR, " ", "\n", "\f", "y"}
Texts(n) == UNION {[1..k -> Alphabet] : k \in 0..n}
\* pattern 0 is all dead, 1 all alive, 2 and up a staircase (no two rows alike)
PatternCell(k, x, y) == k >= 1 /\ (k = 1 \/ x <= y + k - 2)
PatternBoard(k, w, h) ==
    [dims |-> Coords(U(w), U(h)),
     cells |-> [i \in 1..(w * h) |-> PatternCell(k, (i - 1) % w, (i - 1) \div w)]]
PatternBoards(d) ==
    {PatternBoard(k, w, h) : k \in 0..MaxPattern, w \in 1..d, h \in 1..d}
ChainOthers ==
    {r.board : r \in {q \in {BoardNew(Coords(U(w), U(h)), c) :
                                w \in 1..MaxChainDim, h \in 1..MaxChainDim,
                                c \in CellOptions(MaxChainCells)} : q.status = "Ok"}}

\* the build the program runs as
InitBuild == overflow_checks \in BOOLEAN

\* main.rs:40-42: the signals of App before any event
InitDriver ==
    /\ is_running = FALSE
    /\ interval_id = NoneId
    /\ interval_seconds = 5
    /\ timers = {}
    /\ handles = 0

InitRest ==
    /\ ret = RetNone
    /\ text = <<>>
    /\ origin = NoBoard
    /\ parity = 0
    /\ InitDriver

(* ---- Board::new ------------------------------------------------------- *)

InitNew ==
    /\ InitBuild
    /\ call \in {CallRec("once", "new", NoBoard, Coords(w, h), c, NoBoard, NoCoords) :
                    w \in Usizes(MaxNewDim) \cup WideUsizes,
                    h \in Usizes(MaxNewDim) \cup WideUsizes,
                    c \in CellOptions(MaxCells)}
    /\ board = NoBoard
    /\ InitRest

DoNew ==
    /\ call.mode = "once" /\ call.op = "new" /\ ret.op = "none"
    /\ ret' = Returned("new", BoardNew(call.dims, call.cells))
    /\ board' = IF ret'.status = "Ok" THEN ret'.board ELSE board
    /\ UNCHANGED <<overflow_checks, call, text, origin, parity, uiVars>>

SpecNew == InitNew /\ [][DoNew]_vars

(* ---- Board::try_from and Display -------------------------------------- *)

InitParse ==
    /\ InitBuild
    /\ call = CallRec("once", "parse", NoBoard, NoCoords, None, NoBoard, NoCoords)
    /\ board = NoBoard
    /\ ret = RetNone
    /\ text \in Texts(MaxTextLen)
    /\ origin = NoBoard
    /\ parity = 0
    /\ InitDriver

DoTryFrom ==
    /\ call.mode = "once" /\ call.op = "parse" /\ ret.op # "parse"
    /\ ret.status # "Panic"
    /\ ret' = Returned("parse", TryFrom(text))
    /\ board' = IF ret'.status = "Ok" THEN ret'.board ELSE board
    /\ UNCHANGED <<overflow_checks, call, text, origin, parity, uiVars>>

SpecParse == InitParse /\ [][DoTryFrom]_vars

InitRoundTrip ==
    /\ InitBuild
    /\ board \in AllBoards(MaxSide, MaxArea)
    /\ call = CallRec("once", "format", board, NoCoords, None, NoBoard, NoCoords)
    /\ InitRest

\* format!("{board}"): Display never returns Err writing to a String
DoFmt ==
    /\ call.mode = "once" /\ call.op = "format" /\ ret.op = "none"
    /\ LET written == BoardFmt(call.self) IN
          /\ text' = written.v
          /\ ret' = Returned("format", IF written.ok THEN Ok(call.self) ELSE Panic)
    /\ call' = [call EXCEPT !.op = "parse"]
    /\ UNCHANGED <<overflow_checks, board, origin, parity, uiVars>>

NextRoundTrip == DoFmt \/ DoTryFrom

SpecRoundTrip == InitRoundTrip /\ [][NextRoundTrip]_vars

(* ---- Board::add ------------------------------------------------------- *)

InitAdd ==
    /\ InitBuild
    /\ call \in {CallRec("once", "add", s, NoCoords, None, o, Coords(ox, oy)) :
                    s \in PatternBoards(MaxSelfDim),
                    o \in PatternBoards(MaxSelfDim),
                    ox \in Usizes(MaxOffset) \cup {UsizeMax},
                    oy \in Usizes(MaxOffset) \cup {UsizeMax}}
    /\ board = call.self
    /\ InitRest

DoAdd ==
    /\ call.mode = "once" /\ call.op = "add" /\ ret.op = "none"
    /\ ret' = Returned("add", BoardAdd(board, call.other, call.offset))
    /\ UNCHANGED <<overflow_checks, board, call, text, origin, parity, uiVars>>

SpecAdd == InitAdd /\ [][DoAdd]_vars

(* ---- Board::next ------------------------------------------------------ *)

InitNext ==
    /\ InitBuild
    /\ board \in AllBoards(MaxSide, MaxArea) \cup {Blinker.board}
    /\ call = CallRec("run", "next", NoBoard, NoCoords, None, NoBoard, NoCoords)
    /\ ret = RetNone
    /\ text = <<>>
    /\ origin = board
    /\ parity = 0
    /\ InitDriver

\* b = b.next(), as main.rs:59 and main.rs:70 apply it
DoNext ==
    /\ call.mode = "run" /\ ret.status # "Panic"
    /\ ret' = Returned("next", BoardNext(board))
    /\ call' = [call EXCEPT !.self = board]
    /\ board' = IF ret'.status = "Ok" THEN ret'.board ELSE board
    /\ parity' = 1 - parity
    /\ UNCHANGED <<overflow_checks, text, origin, uiVars>>

SpecNext == InitNext /\ [][DoNext]_vars

(* ---- any sequence of new, try_from, add and next ---------------------- *)

InitChain ==
    /\ InitBuild
    /\ board = NoBoard
    /\ call = CallRec("chain", "none", NoBoard, NoCoords, None, NoBoard, NoCoords)
    /\ InitRest

\* the caller keeps the board an operation returns, and its old one on an Err
Chained(op, r) ==
    /\ ret' = Returned(op, r)
    /\ call' = [call EXCEPT !.op = op, !.self = board]
    /\ board' = IF r.status = "Ok" THEN r.board ELSE board
    /\ UNCHANGED <<overflow_checks, text, origin, parity, uiVars>>

ChainNew ==
    /\ call.mode = "chain" /\ ret.status # "Panic"
    /\ \E w \in Usizes(MaxChainDim) \cup {UsizeMax},
          h \in Usizes(MaxChainDim) \cup {UsizeMax},
          c \in CellOptions(MaxChainCells) :
          Chained("new", BoardNew(Coords(w, h), c))

ChainTryFrom ==
    /\ call.mode = "chain" /\ ret.status # "Panic"
    /\ \E s \in Texts(MaxChainText) : Chained("parse", TryFrom(s))

ChainAdd ==
    /\ call.mode = "chain" /\ ret.status # "Panic" /\ board # NoBoard
    /\ \E o \in ChainOthers,
          ox \in Usizes(MaxChainOffset) \cup {UsizeMax},
          oy \in Usizes(MaxChainOffset) \cup {UsizeMax} :
          Chained("add", BoardAdd(board, o, Coords(ox, oy)))

ChainNext ==
    /\ call.mode = "chain" /\ ret.status # "Panic" /\ board # NoBoard
    /\ Chained("next", BoardNext(board))

NextChain == ChainNew \/ ChainTryFrom \/ ChainAdd \/ ChainNext

SpecChain == InitChain /\ [][NextChain]_vars

(* ---- main.rs: main and App -------------------------------------------- *)

CELL_SIZE == 10

\* before main() runs
InitApp ==
    /\ InitBuild
    /\ board = NoBoard
    /\ call = CallRec("main", "none", NoBoard, NoCoords, None, NoBoard, NoCoords)
    /\ InitRest

\* the board main() mounts: Ok(initial_board), the Err a `?` returns, or a panic
MainBoard ==
    Only({IF fresh.status # "Ok" THEN fresh
          ELSE IF add_board.status # "Ok" THEN Panic
          ELSE Only({IF /\ initial_board.status = "Ok"
                        /\ \/ ~UMul(U(CELL_SIZE), DimY(initial_board.board)).ok
                           \/ ~UMul(U(CELL_SIZE), DimX(initial_board.board)).ok
                     THEN Panic
                     ELSE initial_board :
                     initial_board \in {BoardAdd(fresh.board, add_board.board,
                                                 Coords(U(15), U(15)))}}) :
          fresh \in {BoardNew(Coords(U(120), U(120)), None)},
          add_board \in {Gosper}})

\* main(): a `?` returns the Err and the page stays empty, a panic aborts;
\* otherwise App is mounted with initial_board, held here as origin
Main ==
    /\ call.mode = "main"
    /\ \E result \in {MainBoard} :
           /\ ret' = Returned("main", result)
           /\ origin' = result.board
           /\ call' = [call EXCEPT !.op = "main",
                                   !.mode = IF result.status = "Ok" THEN "app" ELSE "exited"]
    /\ UNCHANGED <<overflow_checks, board, text, parity, uiVars>>

\* the timer state the closures read and write
Driver == [interval_id |-> interval_id, timers |-> timers, handles |-> handles]

SetDriver(d) ==
    /\ interval_id' = d.interval_id
    /\ timers' = d.timers
    /\ handles' = d.handles

\* set_board.update(|b| *b = b.next()): the signal now holds one more next() of
\* origin; the generations of the 120x120 board are counted, not computed
UpdateBoard ==
    /\ parity' = 1 - parity
    /\ call' = [call EXCEPT !.op = "next"]
    /\ UNCHANGED <<board, ret, text, origin>>

\* setInterval hands out a fresh handle; its period, (interval_seconds * 1000.0)
\* as i32 milliseconds, is not part of the state
StartInterval(d) ==
    LET id == d.handles + 1 IN
    [interval_id |-> SomeId(id),
     timers |-> d.timers \cup {id},
     handles |-> id]

\* stop_interval forgetting the handle without clearInterval
StopIntervalNoClear(d) == [d EXCEPT !.interval_id = NoneId]

StopInterval(d) ==
    [d EXCEPT !.timers = IF d.interval_id.some
                         THEN d.timers \ {d.interval_id.v}
                         ELSE d.timers,
              !.interval_id = NoneId]

\* "Restart interval if running"
Restart(d, running) ==
    IF running THEN StartInterval(StopInterval(d)) ELSE d

\* a handler that creates a timer runs while the browser has handles left
CanStart == handles < MaxHandles

Step ==
    /\ call.mode = "app"
    /\ UpdateBoard
    /\ UNCHANGED <<overflow_checks, uiVars>>

TimerCallback ==
    /\ call.mode = "app"
    /\ \E t \in timers : UpdateBoard
    /\ UNCHANGED <<overflow_checks, uiVars>>

ToggleAutoPlay ==
    /\ call.mode = "app"
    /\ IF is_running
       THEN /\ SetDriver(StopInterval(Driver))
            /\ is_running' = FALSE
       ELSE /\ CanStart
            /\ SetDriver(StartInterval(Driver))
            /\ is_running' = TRUE
    /\ UNCHANGED <<overflow_checks, interval_seconds, boardVars>>

\* (*seconds - 0.01).max(0.0), in hundredths
DecreaseInterval ==
    /\ call.mode = "app"
    /\ is_running => CanStart
    /\ interval_seconds' = IF interval_seconds - 1 > 0 THEN interval_seconds - 1 ELSE 0
    /\ SetDriver(Restart(Driver, is_running))
    /\ UNCHANGED <<overflow_checks, is_running, boardVars>>

IncreaseInterval ==
    /\ call.mode = "app"
    /\ is_running => CanStart
    /\ interval_seconds < MaxInterval
    /\ interval_seconds' = interval_seconds + 1
    /\ SetDriver(Restart(Driver, is_running))
    /\ UNCHANGED <<overflow_checks, is_running, boardVars>>

\* what input.value().parse::<f64>() gives: Err, or a value (negative ones too)
InputValues == {[some |-> FALSE, v |-> 0]} \cup {Some(v) : v \in -1..MaxInterval}

OnIntervalInput ==
    /\ call.mode = "app"
    /\ is_running => CanStart
    /\ \E value \in InputValues :
          IF value.some
          THEN /\ interval_seconds' = IF value.v > 0 THEN value.v ELSE 0
               /\ SetDriver(Restart(Driver, is_running))
          ELSE UNCHANGED <<interval_seconds, interval_id, timers, handles>>
    /\ UNCHANGED <<overflow_checks, is_running, boardVars>>

NextApp ==
    \/ Main
    \/ Step
    \/ TimerCallback
    \/ ToggleAutoPlay
    \/ DecreaseInterval
    \/ IncreaseInterval
    \/ OnIntervalInput

SpecApp == InitApp /\ [][NextApp]_vars

(* ---- every caller ----------------------------------------------------- *)

Init ==
    \/ InitNew
    \/ InitParse
    \/ InitRoundTrip
    \/ InitAdd
    \/ InitNext
    \/ InitChain
    \/ InitApp

Next ==
    \/ DoNew
    \/ DoTryFrom
    \/ DoFmt
    \/ DoAdd
    \/ DoNext
    \/ NextChain
    \/ NextApp

Spec == Init /\ [][Next]_vars

---------------------------------------------------------------------------
(* What the properties below are stated with: widths, heights and offsets  *)
(* as the numbers they stand for, the grid read straight from the cell     *)
(* vector, and Conway's rule written over the eight offsets.  A usize that *)
(* is not small stands for a number above every width, height, offset and  *)
(* length of the model.                                                    *)

W(b) == b.dims.x.r
H(b) == b.dims.y.r
CellAt(b, x, y) == b.cells[y * W(b) + x + 1]
InGrid(b, x, y) == x \in 0..(W(b) - 1) /\ y \in 0..(H(b) - 1)
Grid(b) == (0..(W(b) - 1)) \X (0..(H(b) - 1))
AliveSet(b) == {p \in Grid(b) : CellAt(b, p[1], p[2])}
\* width * height = n, as numbers
AreaIs(dims, n) ==
    IF dims.x = U(0) \/ dims.y = U(0) THEN n = 0
    ELSE IsSmall(dims.x) /\ IsSmall(dims.y) /\ dims.x.r * dims.y.r = n
WellFormed(b) ==
    /\ b.dims.x # U(0)
    /\ b.dims.y # U(0)
    /\ AreaIs(b.dims, Len(b.cells))
Around == ({-1, 0, 1} \X {-1, 0, 1}) \ {<<0, 0>>}
AliveAround(b, x, y) ==
    Cardinality({d \in Around : /\ InGrid(b, x + d[1], y + d[2])
                                /\ CellAt(b, x + d[1], y + d[2])})
ConwayRule(b, x, y) ==
    \/ CellAt(b, x, y) /\ AliveAround(b, x, y) \in {2, 3}
    \/ ~CellAt(b, x, y) /\ AliveAround(b, x, y) = 3

(* ---- C1 ---------------------------------------------------------------- *)
\* C1: for a valid board b, next(b) never fails, keeps b's dimensions, and a
\* cell (x,y) of next(b) is alive iff (b alive at (x,y) and n in {2,3}) or
\* (b dead at (x,y) and n = 3), n counting b's alive cells among the 8
\* surrounding positions, positions off the grid counting as dead.
C1_NextRule ==
    (ret.op = "next" /\ WellFormed(call.self)) =>
        /\ ret.status = "Ok"
        /\ board = ret.board
        /\ board.dims = call.self.dims
        /\ Len(board.cells) = Len(call.self.cells)
        /\ \A p \in Grid(call.self) :
              CellAt(board, p[1], p[2]) = ConwayRule(call.self, p[1], p[2])

\* next() applied to the full 3x3 board: the centre (8 neighbours) dies, the
\* corner (3 neighbours, 5 positions off the grid) survives.
C1_Witness ==
    /\ ret.op = "next"
    /\ call.self.dims = Coords(U(3), U(3))
    /\ AliveSet(call.self) = Grid(call.self)
    /\ ~CellAt(board, 1, 1)
    /\ CellAt(board, 0, 0)

(* ---- C8 ---------------------------------------------------------------- *)
\* C8: from the 5x5 blinker (alive exactly at (2,1),(2,2),(2,3)) the board
\* after an odd number of next() is alive exactly at (1,2),(2,2),(3,2), and
\* after an even number it is the blinker again.
C8_BlinkerPeriod2 ==
    (origin.dims = Coords(U(5), U(5)) /\ origin = Blinker.board) =>
        /\ Blinker.status = "Ok"
        /\ Len(origin.cells) = 25
        /\ AliveSet(origin) = {<<2, 1>>, <<2, 2>>, <<2, 3>>}
        /\ parity = 1 => /\ board.dims = Coords(U(5), U(5))
                         /\ Len(board.cells) = 25
                         /\ AliveSet(board) = {<<1, 2>>, <<2, 2>>, <<3, 2>>}
        /\ parity = 0 => board = origin

\* the blinker after an even, positive number of steps
C8_Witness ==
    /\ origin.dims = Coords(U(5), U(5))
    /\ origin = Blinker.board
    /\ ret.op = "next"
    /\ ret.status = "Ok"
    /\ parity = 0
    /\ AliveSet(call.self) = {<<1, 2>>, <<2, 2>>, <<3, 2>>}

(* ---- C2 ---------------------------------------------------------------- *)
\* p lies in the rectangle of other's size at the offset
InOverlay(p) ==
    /\ IsSmall(call.offset.x) /\ IsSmall(call.offset.y)
    /\ p[1] - call.offset.x.r \in 0..(W(call.other) - 1)
    /\ p[2] - call.offset.y.r \in 0..(H(call.other) - 1)

Ring5 == {p \in (0..4) \X (0..4) : p[1] \in {0, 4} \/ p[2] \in {0, 4}}

\* C2: a successful add returns a board of self's dimensions whose cells in
\* the rectangle at the offset are other's cells (dead ones included) and
\* whose other cells are self's; self is unmodified; the dead 3x3 board added
\* to the alive 5x5 board at (1,1) leaves exactly the outer ring alive.
C2_AddOverlay ==
    /\ (ret.op = "add" /\ ret.status = "Ok") =>
          /\ ret.board.dims = call.self.dims
          /\ Len(ret.board.cells) = Len(call.self.cells)
          /\ \A p \in Grid(call.self) :
                CellAt(ret.board, p[1], p[2]) =
                    IF InOverlay(p)
                    THEN CellAt(call.other, p[1] - call.offset.x.r, p[2] - call.offset.y.r)
                    ELSE CellAt(call.self, p[1], p[2])
          /\ board = call.self
    /\ (/\ ret.op = "add"
        /\ call.self = PatternBoard(1, 5, 5)
        /\ call.other = PatternBoard(0, 3, 3)
        /\ call.offset = Coords(U(1), U(1))) =>
          /\ ret.status = "Ok"
          /\ AliveSet(ret.board) = Ring5

\* C2 for the offsets whose sums with other's dimensions stay in the usize range
C2_AddOverlayInRange ==
    (IsSmall(call.offset.x) /\ IsSmall(call.offset.y)) => C2_AddOverlay

\* without overflow checks: the dead 1x1 board added to the alive 3x3 board at
\* (usize::MAX, 1) succeeds and kills the cell (2,0)
C2_Witness ==
    /\ ret.op = "add"
    /\ ret.status = "Ok"
    /\ call.self = PatternBoard(1, 3, 3)
    /\ call.other = PatternBoard(0, 1, 1)
    /\ call.offset = Coords(UsizeMax, U(1))
    /\ AliveSet(ret.board) = Grid(call.self) \ {<<2, 0>>}

(* ---- C3 ---------------------------------------------------------------- *)
NoMargin ==
    \/ ~IsSmall(call.offset.x)
    \/ ~IsSmall(call.offset.y)
    \/ call.offset.x.r + W(call.other) >= W(call.self)
    \/ call.offset.y.r + H(call.other) >= H(call.self)

\* C3: add fails with OutOfBounds exactly when offset.x + other.width >=
\* self.width or offset.y + other.height >= self.height; otherwise it
\* succeeds and every coordinate it writes is inside self.
C3_AddBounds ==
    ret.op = "add" =>
        /\ ret.status \in {"Ok", "Err"}
        /\ ret.status = "Err" <=> NoMargin
        /\ ret.status = "Err" => ret.err = OutOfBounds
        /\ ret.status = "Ok" =>
              /\ IsSmall(call.offset.x) /\ IsSmall(call.offset.y)
              /\ \A c \in Grid(call.other) :
                    InGrid(call.self, call.offset.x.r + c[1], call.offset.y.r + c[2])

\* C3 for the offsets whose sums with other's dimensions stay in the usize range
C3_AddBoundsInRange ==
    (IsSmall(call.offset.x) /\ IsSmall(call.offset.y)) => C3_AddBounds

\* a 1x1 board into a 3x3 board at (usize::MAX, 0): no OutOfBounds, a panic
C3_Witness ==
    /\ ret.op = "add"
    /\ call.self.dims = Coords(U(3), U(3))
    /\ call.other.dims = Coords(U(1), U(1))
    /\ call.offset = Coords(UsizeMax, U(0))
    /\ ret.status = "Panic"

\* the 5x5 board into the 5x5 board at (0,0): flush against the far edge
C3_FlushRejected ==
    /\ ret.op = "add"
    /\ call.self.dims = Coords(U(5), U(5))
    /\ call.other.dims = Coords(U(5), U(5))
    /\ call.offset = Coords(U(0), U(0))
    /\ ret.status = "Err"
    /\ ret.err = OutOfBounds

(* ---- C5 ---------------------------------------------------------------- *)
NewMismatch == call.cells.some /\ ~AreaIs(call.dims, Len(call.cells.v))

NewSucceedsIff ==
    ret.status = "Ok" <=>
        /\ call.dims.x # U(0)
        /\ call.dims.y # U(0)
        /\ ~NewMismatch

NewAllDead ==
    (ret.status = "Ok" /\ ~call.cells.some) =>
        /\ ret.board.dims = call.dims
        /\ AreaIs(call.dims, Len(ret.board.cells))
        /\ \A i \in 1..Len(ret.board.cells) : ~ret.board.cells[i]

\* C5: new succeeds iff width > 0, height > 0 and the cells, when given, have
\* width*height elements; it fails with InvalidDimensions when width*height =
\* 0 and with SizeMismatch when the cells are given with a different length;
\* new(dims, None) is all dead.
C5_New ==
    ret.op = "new" =>
        /\ ret.status \in {"Ok", "Err"}
        /\ NewSucceedsIff
        /\ AreaIs(call.dims, 0) => ret.status = "Err" /\ ret.err = InvalidDimensions
        /\ NewMismatch => ret.status = "Err" /\ ret.err = SizeMismatch
        /\ NewAllDead

\* C5 for the dimensions whose product stays in the usize range, SizeMismatch
\* being the error of a different length when width*height > 0
C5_NewInRange ==
    (ret.op = "new" /\ IsSmall(call.dims.x) /\ IsSmall(call.dims.y)) =>
        /\ ret.status \in {"Ok", "Err"}
        /\ NewSucceedsIff
        /\ AreaIs(call.dims, 0) => ret.status = "Err" /\ ret.err = InvalidDimensions
        /\ (NewMismatch /\ ~AreaIs(call.dims, 0)) =>
              ret.status = "Err" /\ ret.err = SizeMismatch
        /\ NewAllDead

\* without overflow checks: new((2^(BITS-1) + 1, 2), two cells) succeeds
C5_Witness ==
    /\ ret.op = "new"
    /\ call.dims = Coords(WrappingAdd(UsizeHalf, U(1)), U(2))
    /\ call.cells = Some(<<TRUE, FALSE>>)
    /\ ret.status = "Ok"
    /\ ~WellFormed(ret.board)

(* ---- C4, C7 ------------------------------------------------------------ *)
Rows == SplitWhitespace(Trim(text))

\* C4: try_from fails with InvalidCharacter if the trimmed text holds a
\* character other than whitespace, 'x' and '-'; otherwise with RaggedRows if
\* a row's length differs from the first row's; otherwise it returns the board
\* of width = first row length, height = number of rows, alive at (x,y) iff
\* column x of row y is 'x'.
C4_Parse ==
    ret.op = "parse" =>
        IF \E i \in 1..Len(text) : ~IsWhitespace(text[i]) /\ text[i] \notin {"x", "-"}
        THEN ret.status = "Err" /\ ret.err = InvalidCharacter
        ELSE IF \E i \in 1..Len(Rows) : Len(Rows[i]) # Len(Rows[1])
        THEN ret.status = "Err" /\ ret.err = RaggedRows
        ELSE /\ ret.status = "Ok"
             /\ Len(Rows) > 0
             /\ ret.board.dims = Coords(U(Len(Rows[1])), U(Len(Rows)))
             /\ Len(ret.board.cells) = Len(Rows[1]) * Len(Rows)
             /\ \A p \in Grid(ret.board) :
                   CellAt(ret.board, p[1], p[2]) = (Rows[p[2] + 1][p[1] + 1] = "x")

\* C4 on the texts that hold a row
C4_ParseOfRows == Len(Rows) > 0 => C4_Parse

\* a text of whitespace only: no stray character, no ragged row
C4_Witness ==
    /\ ret.op = "parse"
    /\ text = <<" ", "\n", "\f">>
    /\ ret.status = "Panic"

\* C7: try_from returns a Board or an error value for every text, the empty
\* and the whitespace-only ones included.
C7_ParseReturns == ret.op = "parse" => ret.status \in {"Ok", "Err"}

\* the empty text
C7_Witness ==
    /\ ret.op = "parse"
    /\ text = <<>>
    /\ ret.status = "Panic"

(* ---- C6 ---------------------------------------------------------------- *)
Glyph(alive) == IF alive THEN "x" ELSE "-"

\* C6: for a valid board b, format(b) is height lines of width glyphs, storage
\* row y being line y, and try_from(format(b)) succeeds with b's width, height
\* and cells.
C6_RoundTrip ==
    /\ (ret.op \in {"format", "parse"} /\ WellFormed(call.self)) =>
          LET w == W(call.self)
              h == H(call.self)
          IN  /\ ret.status = "Ok"
              /\ Len(text) = h * (w + 1)
              /\ \A y \in 0..(h - 1) :
                    /\ text[y * (w + 1) + w + 1] = "\n"
                    /\ \A x \in 0..(w - 1) :
                          text[y * (w + 1) + x + 1] = Glyph(CellAt(call.self, x, y))
    /\ (ret.op = "parse" /\ WellFormed(call.self)) =>
          /\ ret.board.dims = call.self.dims
          /\ ret.board.cells = call.self.cells

\* a 2x3 board with only its top-left cell alive, formatted and parsed back
C6_Witness ==
    /\ ret.op = "parse"
    /\ ret.status = "Ok"
    /\ call.op = "parse"
    /\ call.self.dims = Coords(U(2), U(3))
    /\ AliveSet(call.self) = {<<0, 0>>}
    /\ text = <<"x", "-", "\n", "-", "-", "\n", "-", "-", "\n">>
    /\ AliveSet(ret.board) = {<<0, 0>>}

(* ---- C9 ---------------------------------------------------------------- *)
\* C9: every board obtained by successful new, try_from, add and next has
\* width > 0, height > 0 and width*height cells; next keeps the dimensions of
\* its board, add those of self.
C9_BoardInvariant ==
    /\ board # NoBoard => WellFormed(board)
    /\ ret.status = "Ok" => board = ret.board /\ WellFormed(ret.board)
    /\ ret.op = "next" => ret.status = "Ok" /\ board.dims = call.self.dims
    /\ (ret.op = "add" /\ ret.status = "Ok") => board.dims = call.self.dims

\* C9 in a build with overflow checks, for the operations that return
C9_BoardInvariantChecked ==
    (overflow_checks /\ ret.status # "Panic") => C9_BoardInvariant

\* without overflow checks: new((usize::MAX, usize::MAX), one cell) returns a
\* board of one cell
C9_Witness ==
    /\ ret.op = "new"
    /\ ret.status = "Ok"
    /\ board = ret.board
    /\ board.dims = Coords(UsizeMax, UsizeMax)
    /\ Len(board.cells) = 1

(* ---- C10 --------------------------------------------------------------- *)
\* main mounts App on the 120x120 board holding the gosper gun at (15,15)
MainMountsGosper ==
    ret.op = "main" =>
        /\ ret.status = "Ok"
        /\ call.mode = "app"
        /\ origin.dims = Coords(U(120), U(120))
        /\ Len(origin.cells) = 120 * 120
        /\ call.op = "main" =>
              AliveSet(origin) = {<<p[1] + 15, p[2] + 15>> : p \in AliveSet(Gosper.board)}

\* C10: is_running holds exactly when interval_id holds a handle; at most one
\* interval timer is scheduled, the one interval_id names; none is scheduled
\* when auto-play is stopped.
C10_OneTimer ==
    /\ is_running <=> interval_id.some
    /\ Cardinality(timers) <= 1
    /\ interval_id.some => timers = {interval_id.v}
    /\ ~interval_id.some => timers = {}

\* auto-play running on its third timer, a generation having been computed
C10_Witness ==
    /\ call.mode = "app"
    /\ call.op = "next"
    /\ is_running
    /\ handles >= 3
    /\ Cardinality(timers) = 1

===========================================================================
